---------------------------- MODULE Spec2Model ----------------------------
(***************************************************************************)
(* Suntime Inbox Copilot (src/main.py): the text-to-query pipeline         *)
(* (normalize_terms, build_shopify_query), the catalog lookup              *)
(* (shopify_query), the intent resolver (intent_from_openai) and the       *)
(* /chat-intent handler (chat_intent).                                     *)
(*                                                                         *)
(* A Python str is a sequence of characters; a character is a one-letter   *)
(* TLA+ string.  Three characters outside ASCII are written with two       *)
(* letters: "n~" is U+00F1 (n with tilde, precomposed), "N~" is U+00D1,    *)
(* and "~" is U+0303, the combining tilde (general category Mn).           *)
(***************************************************************************)
EXTENDS Integers, Sequences, FiniteSets, TLC

VARIABLES
    \* ---- process configuration (module level, lines 19-28)
    oai,            \* TRUE iff the OpenAI client exists (OPENAI_API_KEY set)
    shopify_cfg,    \* TRUE iff SHOPIFY_GQL and SHOPIFY_TOKEN are both set
    \* ---- one invocation of chat_intent
    pc,             \* position of the handler
    message,        \* data.message
    user_text,      \* local of chat_intent
    intent,         \* local of chat_intent
    products,       \* local of chat_intent
    response,       \* the returned {"response": ...}
    raised,         \* TRUE iff an exception left chat_intent
    \* ---- history of the invocation
    calls,          \* blocking calls issued to the collaborators, in order
    lookups,        \* arguments of the shopify_query invocations, in order
    results,        \* outcomes of the completed shopify_query invocations
    llm_result,     \* outcome of oai.responses.create, if it was called
    \* ---- the pure functions applied to drawn inputs
    stage,          \* "off", "text", "terms", "query"
    text,           \* argument of normalize_terms
    terms,          \* a token list
    query           \* result of build_shopify_query

vars == << oai, shopify_cfg, pc, message, user_text, intent, products,
           response, raised, calls, lookups, results, llm_result,
           stage, text, terms, query >>

chatVars == << oai, shopify_cfg, pc, message, user_text, intent, products,
               response, raised, calls, lookups, results, llm_result >>

pureVars == << stage, text, terms, query >>

-----------------------------------------------------------------------------
(* Bounds of the model.                                                    *)

MaxWords == 6       \* words in a text given to normalize_terms
MaxTerms == 3       \* tokens in a list given to build_shopify_query
MaxMsgWords == 2    \* words in a chat message
MaxHits == 2        \* edges in one catalog answer

-----------------------------------------------------------------------------
(* Characters and str methods.                                             *)

\* str.isspace() characters that occur in the model
WHITESPACE == { " ", "\t", "\n" }

LowerMap ==
    [ A |-> "a", B |-> "b", C |-> "c", D |-> "d", E |-> "e", F |-> "f",
      G |-> "g", H |-> "h", I |-> "i", J |-> "j", K |-> "k", L |-> "l",
      M |-> "m", N |-> "n", O |-> "o", P |-> "p", Q |-> "q", R |-> "r",
      S |-> "s", T |-> "t", U |-> "u", V |-> "v", W |-> "w", X |-> "x",
      Y |-> "y", Z |-> "z" ] @@ ("N~" :> "n~")

\* str.lower(), one character
lower_char(c) == IF c \in DOMAIN LowerMap THEN LowerMap[c] ELSE c

\* str.lower()
lower(s) == [ i \in 1..Len(s) |-> lower_char(s[i]) ]

\* unicodedata.normalize("NFD", c) for one character
NFD(c) == IF c = "n~" THEN << "n", "~" >>
          ELSE IF c = "N~" THEN << "N", "~" >>
          ELSE << c >>

\* unicodedata.category(c) = "Mn"
IsMn(c) == c = "~"

RECURSIVE Flatten(_)
Flatten(ss) == IF ss = << >> THEN << >> ELSE Head(ss) \o Flatten(Tail(ss))

strip_accents(s) ==
    SelectSeq(Flatten([ i \in 1..Len(s) |-> NFD(s[i]) ]), LAMBDA c : ~IsMn(c))

\* str.replace(a, b) for a one-character a
RECURSIVE replace_char(_, _, _)
replace_char(s, a, b) ==
    IF s = << >> THEN << >>
    ELSE (IF Head(s) = a THEN b ELSE << Head(s) >>) \o replace_char(Tail(s), a, b)

\* str.split() with no argument: the maximal runs of non-whitespace
RECURSIVE split_from(_, _, _)
split_from(s, cur, acc) ==
    IF s = << >>
    THEN IF cur = << >> THEN acc ELSE Append(acc, cur)
    ELSE IF Head(s) \in WHITESPACE
         THEN split_from(Tail(s), << >>, IF cur = << >> THEN acc ELSE Append(acc, cur))
         ELSE split_from(Tail(s), Append(cur, Head(s)), acc)

split(s) == split_from(s, << >>, << >>)

RECURSIVE lstrip(_)
lstrip(s) == IF s # << >> /\ Head(s) \in WHITESPACE THEN lstrip(Tail(s)) ELSE s

RECURSIVE rstrip(_)
rstrip(s) == IF s # << >> /\ s[Len(s)] \in WHITESPACE
             THEN rstrip(SubSeq(s, 1, Len(s) - 1)) ELSE s

\* str.strip()
strip(s) == rstrip(lstrip(s))

\* sep.join(parts)
RECURSIVE join(_, _)
join(sep, parts) ==
    IF parts = << >> THEN << >>
    ELSE IF Len(parts) = 1 THEN parts[1]
    ELSE parts[1] \o sep \o join(sep, Tail(parts))

\* xs[:n]
Prefix(xs, n) == SubSeq(xs, 1, IF Len(xs) < n THEN Len(xs) ELSE n)

-----------------------------------------------------------------------------
(* normalize_terms                                                         *)

STOPWORDS_ES ==
    { <<"b","u","s","c","o">>,
      <<"b","u","s","c","a","r">>,
      <<"q","u","i","s","i","e","r","a">>,
      <<"q","u","i","e","r","o">>,
      <<"d","e","s","e","o">>,
      <<"m","e">>,
      <<"p","a","r","a">>,
      <<"d","e">>,
      <<"d","e","l">>,
      <<"l","a">>,
      <<"e","l">>,
      <<"l","o","s">>,
      <<"l","a","s">>,
      <<"u","n">>,
      <<"u","n","a">>,
      <<"u","n","o","s">>,
      <<"u","n","a","s">>,
      <<"p","o","r">>,
      <<"c","o","n">>,
      <<"c","o","l","o","r">>,
      <<"t","a","l","l","a">>,
      <<"m","o","d","e","l","o">>,
      <<"h","o","m","b","r","e">>,
      <<"m","u","j","e","r">>,
      <<"n","i","n~","o">>,
      <<"n","i","n~","a">>,
      <<"p","o","r","f","a">>,
      <<"p","o","r","f","a","v","o","r">>,
      <<"f","a","v","o","r">>,
      <<"t","i","p","o">>,
      <<"m","a","r","c","a">>,
      <<"r","e","l","o","j">>,
      <<"l","e","n","t","e","s">>,
      <<"g","a","f","a","s">> }

\* len(w) <= MinLen drops the token
MinLen == 2

\* useful[:MaxTokens]
MaxTokens == 5

\* the text after lower-casing, accent stripping and the two replace calls
cleaned(txt) ==
    replace_char(replace_char(strip_accents(lower(txt)), ",", << " " >>), ".", << " " >>)

\* the loop of lines 58-63
useful_tokens(tokens) ==
    SelectSeq(tokens, LAMBDA w : ~(w \in STOPWORDS_ES) /\ ~(Len(w) <= MinLen))

\* faulty variant: the cap of line 65 is missing
normalize_terms_nocap(txt) == useful_tokens(split(cleaned(txt)))

normalize_terms(txt) == Prefix(useful_tokens(split(cleaned(txt))), MaxTokens)

-----------------------------------------------------------------------------
(* build_shopify_query                                                     *)

BRAND_HINTS ==
    { <<"i","n","v","i","c","t","a">>,
      <<"r","a","y","-","b","a","n">>,
      <<"r","a","y","b","a","n">>,
      <<"o","a","k","l","e","y">>,
      <<"n","e","w">>,
      <<"e","r","a">>,
      <<"g","-","s","h","o","c","k">>,
      <<"g","s","h","o","c","k">>,
      <<"f","e","s","t","i","n","a">>,
      <<"t","o","m","m","y">>,
      <<"h","i","l","f","i","g","e","r">>,
      <<"v","a","n","s">>,
      <<"p","o","l","a","r","o","i","d">> }

\* the set literal of line 85
BRAND_PHRASES ==
    { <<"r","a","y"," ","b","a","n">>,
      <<"n","e","w"," ","e","r","a">>,
      <<"g"," ","s","h","o","c","k">>,
      <<"t","o","m","m","y"," ","h","i","l","f","i","g","e","r">> }

QUOTE == "\""

\* the group of one term w (lines 88-96)
group_of(w0) ==
    LET w == replace_char(w0, QUOTE, << >>)
        title == <<"t","i","t","l","e",":","\"">> \o w \o <<"*","\"">>
        tag == <<"t","a","g",":","\"">> \o w \o <<"\"">>
        vendor == <<"v","e","n","d","o","r",":","\"">> \o w \o <<"\"">>
        hinted == \E k \in 1..Len(split(w)) : split(w)[k] \in BRAND_HINTS
        group == IF hinted THEN << title, tag, vendor >> ELSE << title, tag >>
    IN  <<"(">> \o join(<<" ","O","R"," ">>, group) \o <<")">>

\* the while loop of lines 81-97, from index i
RECURSIVE parts_from(_, _)
parts_from(ts, i) ==
    IF ~(i < Len(ts) + 1) THEN << >>
    ELSE LET merged == i + 1 < Len(ts) + 1
                       /\ (ts[i] \o << " " >> \o ts[i + 1]) \in BRAND_PHRASES
         IN  IF merged
             THEN << group_of(ts[i] \o << " " >> \o ts[i + 1]) >> \o parts_from(ts, i + 2)
             ELSE << group_of(ts[i]) >> \o parts_from(ts, i + 1)

build_shopify_query(ts) ==
    IF ts = << >> THEN << >>
    ELSE join(<<" ","A","N","D"," ">>, parts_from(ts, 1))

-----------------------------------------------------------------------------
(* shopify_query, up to the request                                        *)

\* faulty variant: with no useful term left, the words of the phrase are used
query_terms_raw(q) ==
    IF normalize_terms(q) = << >> THEN split(strip_accents(q)) ELSE normalize_terms(q)

\* lines 104-107
query_terms(q) ==
    IF normalize_terms(q) = << >> THEN normalize_terms(strip_accents(q))
    ELSE normalize_terms(q)

\* the variables {"q": gql_query} of the request (line 109)
gql_query(q) == build_shopify_query(query_terms(q))

\* an exception; str(e) is msg
Exc(cls, msg) == [ kind |-> "raise", cls |-> cls, msg |-> msg, edges |-> << >> ]

Returned(edges) == [ kind |-> "return", cls |-> "", msg |-> "", edges |-> edges ]

\* line 102
NotConfigured == Exc("RuntimeError", "Shopify no configurado (dominio o token faltante).")

\* one product node with every field, and one with none of the optional ones
HitFull ==
    [ title |-> "Invicta Pro Diver", handle |-> "invicta-pro-diver",
      onlineStoreUrl |-> "", price |-> "1234.5" ]

HitBare == [ title |-> "absent", handle |-> "", onlineStoreUrl |-> "", price |-> "absent" ]

EdgeList(n) == [ i \in 1..n |-> IF i % 2 = 1 THEN HitFull ELSE HitBare ]

\* what lines 131-141 can end in, once the request is sent: requests.post
\* raises, raise_for_status raises, the answer holds "errors", or the edges
CatalogOutcomes ==
    { Exc("ConnectionError", "transport"),
      Exc("HTTPError", "500 Server Error"),
      Exc("RuntimeError", "GraphQL errors: [...]") }
    \cup { Returned(EdgeList(n)) : n \in 0..MaxHits }

-----------------------------------------------------------------------------
(* format_price, format_products                                           *)

\* float(v) succeeds on "1234.5" only, among the prices of the model
format_price(v) == IF v = "1234.5" THEN "S/ 1.234,50" ELSE "S/ -"

STOREFRONT_BASE == "https://suntimestore.com"

\* edges[:ListTop]
ListTop == 3

format_products(edges) ==
    [ i \in 1..Len(Prefix(edges, ListTop)) |->
        LET n == edges[i]
        IN  [ title |-> IF n.title = "absent" THEN "Producto" ELSE n.title,
              price |-> format_price(IF n.price = "absent" THEN "-" ELSE n.price),
              url |-> IF n.onlineStoreUrl # "" THEN << n.onlineStoreUrl >>
                      ELSE IF n.handle # "" THEN << STOREFRONT_BASE, "/products/", n.handle >>
                      ELSE << STOREFRONT_BASE >> ] ]

-----------------------------------------------------------------------------
(* intent_from_openai                                                      *)

\* isinstance(e, h) for the exception classes of the model
IsInstance(cls, h) ==
    \/ cls = h
    \/ h = "Exception"
    \/ h = "OpenAIError" /\ cls = "APIConnectionError"

\* faulty variant: the handler of lines 185-186 is missing
IntentHandlers_OpenAIOnly == { "OpenAIError" }

\* the except clauses of lines 183-186
IntentHandlers == { "OpenAIError", "Exception" }

\* the except clause of line 210
FirstHandlers == { "Exception" }

\* the except clause of line 217
SecondHandlers == { "Exception" }

Caught(handlers, cls) == \E h \in handlers : IsInstance(cls, h)

\* what oai.responses.create can end in: r.output_text is None, "", all
\* whitespace, " Ray  Ban ", "RELOJ"; or it raises
LlmOutcomes ==
    { [ kind |-> "reply", isNone |-> TRUE, text |-> << >>, cls |-> "" ] }
    \cup { [ kind |-> "reply", isNone |-> FALSE, text |-> t, cls |-> "" ] :
             t \in { << >>, << " ", "\n" >>,
                     <<" ","R","a","y"," "," ","B","a","n"," ">>,
                     <<"R","E","L","O","J">> } }
    \cup { [ kind |-> "raise", isNone |-> FALSE, text |-> << >>, cls |-> c ] :
             c \in { "APIConnectionError", "AttributeError" } }

\* faulty variant: line 182 returns intent, without the fallback
intent_of_reply_nofallback(o, ut) == lower(strip(IF o.isNone THEN << >> ELSE o.text))

\* lines 181-182
intent_of_reply(o, ut) ==
    LET it == lower(strip(IF o.isNone THEN << >> ELSE o.text))
    IN  IF it = << >> THEN ut ELSE it

-----------------------------------------------------------------------------
(* chat_intent                                                             *)

Prompt == [ kind |-> "prompt", intent |-> << >>, err |-> "", listado |-> << >> ]

Apology(msg) == [ kind |-> "apology", intent |-> << >>, err |-> msg, listado |-> << >> ]

NoResults(it) == [ kind |-> "no_results", intent |-> it, err |-> "", listado |-> << >> ]

Listing(it, listado) == [ kind |-> "listing", intent |-> it, err |-> "", listado |-> listado ]

NoResponse == [ kind |-> "none", intent |-> << >>, err |-> "", listado |-> << >> ]

NoLlmResult == [ kind |-> "none", isNone |-> FALSE, text |-> << >>, cls |-> "" ]

\* faulty variant: the message is not stripped
trimmed_raw(m) == m

\* line 200
trimmed(m) == strip(m)

\* faulty variant: the first failure is swallowed like the second
first_except_swallow(e) == [ pc |-> "lookup2", response |-> NoResponse ]

\* lines 210-211
first_except(e) == [ pc |-> "done", response |-> Apology(e.msg) ]

\* faulty variant: the second pass runs whatever the first one found
needs_retry_always(prods) == TRUE

\* line 213
needs_retry(prods) == prods = << >>

\* faulty variant: the failure of the second pass is reported like the first
second_except_apology(e) == [ pc |-> "done", response |-> Apology(e.msg) ]

\* lines 217-218
second_except(e) == [ pc |-> "final", response |-> NoResponse ]

\* faulty variant: the second pass is repeated until it finds something
after_second_loop(prods) == IF prods = << >> THEN "lookup2" ELSE "final"

\* after line 216 the handler goes on to line 220
after_second(prods) == "final"

\* lines 220-232
final_response(prods, it, ut) ==
    IF prods = << >> THEN NoResults(it) ELSE Listing(it, format_products(prods))

LlmCall == [ to |-> "llm", q |-> << >> ]

CatalogCall(q) == [ to |-> "catalog", q |-> q ]

\* lines 200-202
ChatStart ==
    /\ pc = "start"
    /\ user_text' = trimmed(message)
    /\ IF user_text' = << >>
       THEN pc' = "done" /\ response' = Prompt
       ELSE pc' = "intent" /\ UNCHANGED response
    /\ UNCHANGED << oai, shopify_cfg, message, intent, products, raised,
                    calls, lookups, results, llm_result >>
    /\ UNCHANGED pureVars

\* line 205, intent_from_openai up to the call of line 180
IntentEnter ==
    /\ pc = "intent"
    /\ IF ~oai
       THEN intent' = user_text /\ pc' = "lookup1" /\ UNCHANGED calls
       ELSE calls' = Append(calls, LlmCall) /\ pc' = "llm_wait" /\ UNCHANGED intent
    /\ UNCHANGED << oai, shopify_cfg, message, user_text, products, response,
                    raised, lookups, results, llm_result >>
    /\ UNCHANGED pureVars

\* the call of line 180 ends: lines 181-186
IntentReturn ==
    /\ pc = "llm_wait"
    /\ \E o \in LlmOutcomes :
          /\ llm_result' = o
          /\ IF o.kind = "reply"
             THEN intent' = intent_of_reply(o, user_text) /\ pc' = "lookup1"
                  /\ UNCHANGED raised
             ELSE IF Caught(IntentHandlers, o.cls)
                  THEN intent' = user_text /\ pc' = "lookup1" /\ UNCHANGED raised
                  ELSE raised' = TRUE /\ pc' = "done" /\ UNCHANGED intent
    /\ UNCHANGED << oai, shopify_cfg, message, user_text, products, response,
                    calls, lookups, results >>
    /\ UNCHANGED pureVars

\* line 209, shopify_query(intent) up to the request of line 131
Lookup1Enter ==
    /\ pc = "lookup1"
    /\ lookups' = Append(lookups, intent)
    /\ IF ~shopify_cfg
       THEN /\ results' = Append(results, NotConfigured)
            /\ UNCHANGED calls
            /\ IF Caught(FirstHandlers, NotConfigured.cls)
               THEN /\ pc' = first_except(NotConfigured).pc
                    /\ response' = first_except(NotConfigured).response
                    /\ UNCHANGED raised
               ELSE raised' = TRUE /\ pc' = "done" /\ UNCHANGED response
       ELSE /\ calls' = Append(calls, CatalogCall(gql_query(intent)))
            /\ pc' = "wait1"
            /\ UNCHANGED << results, response, raised >>
    /\ UNCHANGED << oai, shopify_cfg, message, user_text, intent, products, llm_result >>
    /\ UNCHANGED pureVars

\* the request of the first lookup ends: lines 137-141, 210-213
Lookup1Return ==
    /\ pc = "wait1"
    /\ \E o \in CatalogOutcomes :
          /\ results' = Append(results, o)
          /\ IF o.kind = "raise"
             THEN /\ UNCHANGED products
                  /\ IF Caught(FirstHandlers, o.cls)
                     THEN /\ pc' = first_except(o).pc
                          /\ response' = first_except(o).response
                          /\ UNCHANGED raised
                     ELSE raised' = TRUE /\ pc' = "done" /\ UNCHANGED response
             ELSE /\ products' = o.edges
                  /\ pc' = IF needs_retry(o.edges) THEN "lookup2" ELSE "final"
                  /\ UNCHANGED << response, raised >>
    /\ UNCHANGED << oai, shopify_cfg, message, user_text, intent, calls, lookups,
                    llm_result >>
    /\ UNCHANGED pureVars

\* line 216, shopify_query(user_text) up to the request of line 131
Lookup2Enter ==
    /\ pc = "lookup2"
    /\ lookups' = Append(lookups, user_text)
    /\ IF ~shopify_cfg
       THEN /\ results' = Append(results, NotConfigured)
            /\ UNCHANGED calls
            /\ IF Caught(SecondHandlers, NotConfigured.cls)
               THEN /\ pc' = second_except(NotConfigured).pc
                    /\ response' = second_except(NotConfigured).response
                    /\ UNCHANGED raised
               ELSE raised' = TRUE /\ pc' = "done" /\ UNCHANGED response
       ELSE /\ calls' = Append(calls, CatalogCall(gql_query(user_text)))
            /\ pc' = "wait2"
            /\ UNCHANGED << results, response, raised >>
    /\ UNCHANGED << oai, shopify_cfg, message, user_text, intent, products, llm_result >>
    /\ UNCHANGED pureVars

\* the request of the second lookup ends: lines 137-141, 216-218
Lookup2Return ==
    /\ pc = "wait2"
    /\ \E o \in CatalogOutcomes :
          /\ results' = Append(results, o)
          /\ IF o.kind = "raise"
             THEN /\ UNCHANGED products
                  /\ IF Caught(SecondHandlers, o.cls)
                     THEN /\ pc' = second_except(o).pc
                          /\ response' = second_except(o).response
                          /\ UNCHANGED raised
                     ELSE raised' = TRUE /\ pc' = "done" /\ UNCHANGED response
             ELSE /\ products' = o.edges
                  /\ pc' = after_second(o.edges)
                  /\ UNCHANGED << response, raised >>
    /\ UNCHANGED << oai, shopify_cfg, message, user_text, intent, calls, lookups,
                    llm_result >>
    /\ UNCHANGED pureVars

\* lines 220-232
ChatRespond ==
    /\ pc = "final"
    /\ response' = final_response(products, intent, user_text)
    /\ pc' = "done"
    /\ UNCHANGED << oai, shopify_cfg, message, user_text, intent, products, raised,
                    calls, lookups, results, llm_result >>
    /\ UNCHANGED pureVars

-----------------------------------------------------------------------------
(* The values the handler's variables hold while no invocation runs.       *)

ChatOff ==
    /\ oai = FALSE /\ shopify_cfg = FALSE
    /\ pc = "off"
    /\ message = << >> /\ user_text = << >> /\ intent = << >>
    /\ products = << >>
    /\ response = NoResponse
    /\ raised = FALSE
    /\ calls = << >> /\ lookups = << >> /\ results = << >>
    /\ llm_result = NoLlmResult

PureOff == stage = "off" /\ text = << >> /\ terms = << >> /\ query = << >>

\* the sequences over S of length at most n
SeqsUpTo(S, n) == UNION { [ 1..k -> S ] : k \in 0..n }

-----------------------------------------------------------------------------
(* normalize_terms applied to drawn texts.                                 *)

\* "New"; "Nin~o" with the precomposed letter; the stopword "Por"; and "an"
\* followed by a combining tilde, which is 2 characters long once stripped
NormWords ==
    { <<"N","e","w">>, <<"N","i","n~","o">>, <<"P","o","r">>, <<"a","n","~">> }

\* how the words of a text are separated and padded
NormStyles ==
    { [ lead |-> << >>, sep |-> << " " >>, trail |-> << >> ],
      [ lead |-> << " " >>, sep |-> << ",", " " >>, trail |-> << "." >> ],
      [ lead |-> << >>, sep |-> << "." >>, trail |-> << "\t" >> ] }

NormTexts ==
    { st.lead \o join(st.sep, ws) \o st.trail :
        ws \in SeqsUpTo(NormWords, MaxWords), st \in NormStyles }

InitNorm ==
    /\ ChatOff
    /\ stage = "text"
    /\ text \in NormTexts
    /\ terms = << >>
    /\ query = << >>

NormStep ==
    /\ stage = "text"
    /\ terms' = normalize_terms(text)
    /\ stage' = "terms"
    /\ UNCHANGED << text, query >>
    /\ UNCHANGED chatVars

SpecNorm == InitNorm /\ [][NormStep]_vars

-----------------------------------------------------------------------------
(* build_shopify_query applied to drawn token lists.  The tokens are ones  *)
(* normalize_terms can return: longer than two characters, not stopwords.  *)

BuildTokens ==
    { <<"r","a","y">>, <<"b","a","n">>, <<"n","e","w">>, <<"e","r","a">>,
      <<"t","o","m","m","y">>, <<"h","i","l","f","i","g","e","r">>,
      <<"g","o","r","r","a">>, <<"o","r","\"","o">> }

InitBuild ==
    /\ ChatOff
    /\ stage = "terms"
    /\ text = << >>
    /\ terms \in SeqsUpTo(BuildTokens, MaxTerms)
    /\ query = << >>

QueryStep ==
    /\ stage = "terms"
    /\ query' = build_shopify_query(terms)
    /\ stage' = "query"
    /\ UNCHANGED << text, terms >>
    /\ UNCHANGED chatVars

SpecBuild == InitBuild /\ [][QueryStep]_vars

-----------------------------------------------------------------------------
(* C7                                                                      *)

UpperChars == DOMAIN LowerMap

DiacriticChars == { "n~", "N~", "~" }

\* where the whitespace-separated words of c start
WordStarts(c) ==
    { i \in 1..Len(c) : ~(c[i] \in WHITESPACE) /\ (i = 1 \/ c[i - 1] \in WHITESPACE) }

WordEnd(c, i) ==
    CHOOSE j \in i..Len(c) :
        /\ j = Len(c) \/ c[j + 1] \in WHITESPACE
        /\ \A k \in i..j : ~(c[k] \in WHITESPACE)

WordAt(c, i) == SubSeq(c, i, WordEnd(c, i))

\* the starts of the words that are neither stopwords nor of length <= 2
Survivors(c) ==
    { i \in WordStarts(c) : Len(WordAt(c, i)) > 2 /\ ~(WordAt(c, i) \in STOPWORDS_ES) }

Rank(c, i) == Cardinality({ j \in Survivors(c) : j <= i })

\* C7: normalize_terms returns at most 5 tokens, each longer than 2
\* characters, none a stopword, none holding an upper-case letter or a
\* diacritic; they are the first 5 surviving words of the cleaned text, in
\* their order of appearance; the empty text gives the empty list.
C7_NormalizeTerms ==
    stage = "terms" =>
        LET c == cleaned(text)
            n == Cardinality(Survivors(c))
        IN  /\ Len(terms) <= 5
            /\ \A k \in 1..Len(terms) :
                  /\ Len(terms[k]) > 2
                  /\ ~(terms[k] \in STOPWORDS_ES)
                  /\ \A j \in 1..Len(terms[k]) :
                        /\ ~(terms[k][j] \in UpperChars)
                        /\ ~(terms[k][j] \in DiacriticChars)
                        /\ ~(terms[k][j] \in WHITESPACE \cup { ",", "." })
            /\ Len(terms) = (IF n < 5 THEN n ELSE 5)
            /\ \A i \in Survivors(c) :
                  Rank(c, i) <= 5 => terms[Rank(c, i)] = WordAt(c, i)
            /\ (text = << >> => terms = << >>)

\* more than 5 words survive, of a text with upper-case and accented
\* letters, commas and a period
C7_Witness ==
    /\ stage = "terms"
    /\ Cardinality(Survivors(cleaned(text))) > 5
    /\ Len(terms) = 5
    /\ \E i \in 1..Len(text) : text[i] \in UpperChars
    /\ \E i \in 1..Len(text) : text[i] = "n~"
    /\ \E i \in 1..Len(text) : text[i] = ","

-----------------------------------------------------------------------------
(* C8                                                                      *)

ClaimPhrases ==
    { <<"r","a","y"," ","b","a","n">>,
      <<"n","e","w"," ","e","r","a">>,
      <<"g"," ","s","h","o","c","k">>,
      <<"t","o","m","m","y"," ","h","i","l","f","i","g","e","r">> }

\* the greedy left-to-right reading of a token list
RECURSIVE ClaimTerms(_)
ClaimTerms(ts) ==
    IF ts = << >> THEN << >>
    ELSE IF Len(ts) >= 2 /\ (ts[1] \o << " " >> \o ts[2]) \in ClaimPhrases
         THEN << [ w |-> ts[1] \o << " " >> \o ts[2], merged |-> TRUE ] >>
              \o ClaimTerms(Tail(Tail(ts)))
         ELSE << [ w |-> SelectSeq(ts[1], LAMBDA ch : ch # QUOTE), merged |-> FALSE ] >>
              \o ClaimTerms(Tail(ts))

TitleTag(w) ==
    <<"(","t","i","t","l","e",":","\"">> \o w \o <<"*","\""," ","O","R"," ","t","a","g",":","\"">>
    \o w \o <<"\"">>

TwoFields(w) == TitleTag(w) \o <<")">>

ThreeFields(w) ==
    TitleTag(w) \o <<" ","O","R"," ","v","e","n","d","o","r",":","\"">> \o w \o <<"\"",")">>

\* the queries the claim allows for a token list: a merged phrase is one
\* group over title, tag and vendor; any other token is one group over
\* title and tag, with or without the vendor clause
ClaimQueries(ts) ==
    LET ct == ClaimTerms(ts)
        fields == { f \in [ 1..Len(ct) -> { 2, 3 } ] :
                      \A k \in 1..Len(ct) : ct[k].merged => f[k] = 3 }
    IN  { join(<<" ","A","N","D"," ">>,
               [ k \in 1..Len(ct) |->
                   IF f[k] = 3 THEN ThreeFields(ct[k].w) ELSE TwoFields(ct[k].w) ]) :
            f \in fields }

\* C8: scanning greedily left to right, two consecutive tokens that form
\* a brand phrase ("ray ban", "new era", "g shock", "tommy hilfiger")
\* give exactly one group searching the full phrase in title (trailing
\* wildcard), tag and vendor; every other token gives its own group; the
\* groups are in token order, joined by AND.
C8_BrandPhraseGroups == stage = "query" => query \in ClaimQueries(terms)

-----------------------------------------------------------------------------
(* One invocation of chat_intent, for drawn messages and configurations.   *)

\* "ray", "ban", "New", "de", "reloj", "Nin~a"
MsgWords ==
    { <<"r","a","y">>, <<"b","a","n">>, <<"N","e","w">>, <<"d","e">>,
      <<"r","e","l","o","j">>, <<"N","i","n~","a">> }

MsgStyles ==
    { [ lead |-> << >>, sep |-> << " " >>, trail |-> << >> ],
      [ lead |-> << " " >>, sep |-> << ",", " " >>, trail |-> << "\n" >> ] }

Messages ==
    { st.lead \o join(st.sep, ws) \o st.trail :
        ws \in SeqsUpTo(MsgWords, MaxMsgWords), st \in MsgStyles }

Init ==
    /\ PureOff
    /\ oai \in BOOLEAN
    /\ shopify_cfg \in BOOLEAN
    /\ pc = "start"
    /\ message \in Messages
    /\ user_text = << >> /\ intent = << >> /\ products = << >>
    /\ response = NoResponse
    /\ raised = FALSE
    /\ calls = << >> /\ lookups = << >> /\ results = << >>
    /\ llm_result = NoLlmResult

Next ==
    \/ ChatStart
    \/ IntentEnter
    \/ IntentReturn
    \/ Lookup1Enter
    \/ Lookup1Return
    \/ Lookup2Enter
    \/ Lookup2Return
    \/ ChatRespond

Spec == Init /\ [][Next]_vars

-----------------------------------------------------------------------------
(* The claims about one invocation.                                        *)

LlmCalls == SelectSeq(calls, LAMBDA c : c.to = "llm")

CatalogCalls == SelectSeq(calls, LAMBDA c : c.to = "catalog")

IsBlank(m) == \A i \in 1..Len(m) : m[i] \in WHITESPACE

\* t is m without its leading and trailing whitespace
IsTrimOf(t, m) ==
    \E a \in 0..Len(m) : \E b \in a..Len(m) :
        /\ t = SubSeq(m, a + 1, b)
        /\ \A k \in 1..a : m[k] \in WHITESPACE
        /\ \A k \in (b + 1)..Len(m) : m[k] \in WHITESPACE
        /\ t # << >> => ~(t[1] \in WHITESPACE) /\ ~(t[Len(t)] \in WHITESPACE)

ZeroHits(r) == r.kind = "return" /\ r.edges = << >>

\* how far the handler is: every action below moves it strictly forward
PcRank(l) ==
    CASE l = "start" -> 0
      [] l = "intent" -> 1
      [] l = "llm_wait" -> 2
      [] l = "lookup1" -> 3
      [] l = "wait1" -> 4
      [] l = "lookup2" -> 5
      [] l = "wait2" -> 6
      [] l = "final" -> 7
      [] l = "done" -> 8

\* C1: whatever the collaborators do, no exception ever leaves
\* chat_intent, the handler has returned a response string whenever it is
\* done, and every step takes it strictly closer to being done (it cannot
\* loop).
C1_NoExceptionEscapes ==
    /\ [](~raised)
    /\ [](pc = "done" => response.kind \in { "prompt", "apology", "no_results", "listing" })
    /\ [][PcRank(pc') > PcRank(pc)]_vars

\* the language model raised a non-provider error, the retry lookup raised
C1_Witness ==
    /\ pc = "done"
    /\ llm_result.cls = "AttributeError"
    /\ Len(results) = 2 /\ results[2].kind = "raise"
    /\ response.kind = "no_results"

\* C2: when the first lookup raises (missing configuration, transport
\* error, GraphQL errors) the response is the apology holding the error's
\* description, and there is no second lookup.
C2_FirstFailureApologises ==
    (Len(results) >= 1 /\ results[1].kind = "raise") =>
        /\ pc = "done"
        /\ response.kind = "apology"
        /\ response.err = results[1].msg
        /\ Len(lookups) = 1
        /\ Len(results) = 1

C2_Witness ==
    /\ pc = "done"
    /\ Len(results) = 1 /\ results[1].cls = "ConnectionError"
    /\ response.kind = "apology" /\ response.err = "transport"

\* C3: there is a second lookup iff the first one returned zero hits
\* without raising; it takes the trimmed message, starts after the first
\* has completed, and there are never more than two lookups.
C3_RetryIffZeroHits ==
    /\ Len(lookups) <= 2
    /\ Len(results) <= Len(lookups) /\ Len(lookups) <= Len(results) + 1
    /\ Len(lookups) = 2 =>
          /\ Len(results) >= 1 /\ ZeroHits(results[1])
          /\ IsTrimOf(lookups[2], message)
    /\ (pc = "done" /\ Len(results) >= 1 /\ ZeroHits(results[1])) => Len(lookups) = 2

\* a second lookup whose input is neither the intent nor the raw message
C3_Witness ==
    /\ pc = "done"
    /\ Len(lookups) = 2 /\ Len(results) = 2
    /\ lookups[2] # lookups[1]
    /\ lookups[2] # message

\* C4: when the first lookup returns zero hits and the retry returns zero
\* hits or raises, the response is the no-results message echoing the
\* resolved intent; the retry's exception is never reported.
C4_NoResultsAfterRetry ==
    (/\ pc = "done"
     /\ Len(results) = 2
     /\ ZeroHits(results[1])
     /\ results[2].kind = "raise" \/ ZeroHits(results[2])) =>
        /\ response.kind = "no_results"
        /\ response.intent = intent
        /\ response.err = ""

\* the retry raised, and the intent is not the user's text
C4_Witness ==
    /\ pc = "done"
    /\ Len(results) = 2 /\ ZeroHits(results[1]) /\ results[2].kind = "raise"
    /\ intent # user_text
    /\ response.kind = "no_results" /\ response.intent = intent

\* C5: for an empty or all-whitespace message the response is the fixed
\* prompt and no collaborator is called: no language-model call, no lookup.
C5_BlankMessage ==
    IsBlank(message) =>
        /\ calls = << >> /\ lookups = << >> /\ results = << >>
        /\ llm_result.kind = "none"
        /\ pc \in { "start", "done" }
        /\ pc = "done" => response.kind = "prompt"

C5_Witness ==
    /\ pc = "done"
    /\ message # << >> /\ IsBlank(message)
    /\ oai /\ shopify_cfg
    /\ response.kind = "prompt"

\* the handler is past line 205
IntentResolved ==
    \/ pc \in { "lookup1", "wait1", "lookup2", "wait2", "final" }
    \/ pc = "done" /\ lookups # << >>

\* C6: intent_from_openai never raises and never retries.  Unconfigured:
\* no call, user_text returned.  Configured: exactly one call; the result
\* is the trimmed, lower-cased reply when that is non-empty, and user_text
\* when it is empty or the call raised.
C6_IntentResolver ==
    /\ ~raised
    /\ Len(LlmCalls) <= 1
    /\ IntentResolved =>
          /\ ~oai => Len(LlmCalls) = 0 /\ llm_result.kind = "none" /\ intent = user_text
          /\ oai =>
                /\ Len(LlmCalls) = 1
                /\ llm_result.kind \in { "reply", "raise" }
                /\ llm_result.kind = "raise" => intent = user_text
                /\ llm_result.kind = "reply" =>
                      LET reply == IF llm_result.isNone THEN << >> ELSE llm_result.text
                      IN  IF IsBlank(reply)
                          THEN intent = user_text
                          ELSE /\ IsTrimOf(intent, lower(reply))
                               /\ \A i \in 1..Len(intent) : ~(intent[i] \in UpperChars)

\* a reply with upper-case letters and surrounding blanks was used
C6_Witness ==
    /\ pc = "lookup1"
    /\ oai
    /\ llm_result.kind = "reply"
    /\ llm_result.text = <<" ","R","a","y"," "," ","B","a","n"," ">>
    /\ intent = <<"r","a","y"," "," ","b","a","n">>

\* C9 as stated: at most two blocking calls to the collaborators
\* (language model and catalog together) in one invocation.
C9_AtMostTwoCalls == Len(calls) <= 2

\* C9 amended: at most three blocking calls, in sequence: at most one to
\* the language model, first, then at most two to the catalog, the second
\* of them only after the first returned zero hits.
C9_AtMostThreeCalls ==
    /\ Len(calls) <= 3
    /\ Len(LlmCalls) <= 1
    /\ Len(CatalogCalls) <= 2
    /\ \A k \in 2..Len(calls) : calls[k].to = "catalog"
    /\ Len(CatalogCalls) = 2 => Len(results) >= 1 /\ ZeroHits(results[1])

C9_Witness ==
    /\ pc = "done"
    /\ Len(calls) = 3
    /\ calls[1].to = "llm" /\ calls[2].to = "catalog" /\ calls[3].to = "catalog"

=============================================================================
